---------------------------- MODULE Spec2Model ----------------------------
(* A model of RebarShapeCutList/RebarShapeCutListfunc.py: the collection of *)
(* bars from the active document (getBaseRebarsList), the bounding box of a *)
(* projected vertex list (getVertexesMinMaxXY), the single shape renderer   *)
(* (getRebarShapeSVG) and the cut list composer (getRebarShapeCutList).     *)
(*                                                                          *)
(* The numbers the functions compute are Python floats: IEEE 754 doubles,   *)
(* every operation rounded to the nearest double.  The geometry of the host *)
(* application (points, edge lengths, fillets) is held as exact rationals   *)
(* <<n, d>> (d > 0, lowest terms); a coordinate or a length the functions   *)
(* read is the double nearest to it.  Infinities, NaN and subnormal numbers *)
(* are out of the range of the arguments.                                   *)
EXTENDS Integers, Sequences, FiniteSets, TLC

VARIABLES doc, decimals, call, ret

vars == <<doc, decimals, call, ret>>

-----------------------------------------------------------------------------
(* Bounds of the model *)

\* Largest "Decimals" unit preference drawn by Init.
MaxPrecision == 2

\* Longest list of bars handed to getRebarShapeCutList.
MaxBars == 2

\* Largest number of objects of one kind in the active document.
MaxObjects == 3

\* Largest MarkNumber of a RebarShape in the active document.
MaxMark == 1

-----------------------------------------------------------------------------
(* Exact rationals: the coordinates and lengths of the host's geometry, and *)
(* the decimal value of a length label                                      *)

Abs(x) == IF x < 0 THEN -x ELSE x

RECURSIVE GCD(_, _)
GCD(a, b) == IF b = 0 THEN a ELSE GCD(b, a % b)

\* The rational n/d in lowest terms with a positive denominator (d # 0).
Q(n, d) ==
  LET s == IF d < 0 THEN -1 ELSE 1
      g == GCD(Abs(n), Abs(d))
  IN  <<(s * n) \div g, (s * d) \div g>>

I(n) == <<n, 1>>

RAdd(a, b) == Q(a[1] * b[2] + b[1] * a[2], a[2] * b[2])
RSub(a, b) == Q(a[1] * b[2] - b[1] * a[2], a[2] * b[2])
RMul(a, b) == Q(a[1] * b[1], a[2] * b[2])
RNeg(a) == <<-a[1], a[2]>>
\* a / b for b # 0
RDiv(a, b) == Q(a[1] * b[2], a[2] * b[1])
RLt(a, b) == a[1] * b[2] < b[1] * a[2]
RIsZero(a) == a[1] = 0

RECURSIVE Pow10(_)
Pow10(p) == IF p = 0 THEN 1 ELSE 10 * Pow10(p - 1)

-----------------------------------------------------------------------------
(* Python floats: IEEE 754 doubles.  A natural number of any size is a      *)
(* sequence of limbs, least significant first, without zero limbs at the    *)
(* top.                                                                     *)

\* The base of a limb.
LimbBits == 15
Limb == 2^LimbBits

Max(a, b) == IF a < b THEN b ELSE a
Min(a, b) == IF b < a THEN b ELSE a

\* Limb i of a, 0 above its top.
BLimb(a, i) == IF i <= Len(a) THEN a[i] ELSE 0

\* The limbs of a, without the zero limbs at its top.
BNorm(a) ==
  IF a = <<>> THEN <<>>
  ELSE SubSeq(a, 1, CHOOSE n \in 0..Len(a) :
                      /\ n = 0 \/ a[n] # 0
                      /\ \A i \in (n + 1)..Len(a) : a[i] = 0)

\* The limbs of an integer n >= 0.
BFromInt(n) == BNorm(<<n % Limb, (n \div Limb) % Limb, n \div (Limb * Limb)>>)

\* The integer of a natural number below 2^31.
BToInt(a) == BLimb(a, 1) + Limb * BLimb(a, 2) + Limb * Limb * BLimb(a, 3)

\* The limbs in which a and b differ.
BDiff(a, b) == {i \in 1..Len(a) : a[i] # b[i]}

\* -1, 0 or 1 as a is less than, equal to or greater than b, which differ
\* in the limbs diff and have the same number of limbs.
BCmpAt(a, b, diff) ==
  IF diff = {} THEN 0
  ELSE IF \E i \in diff : a[i] < b[i] /\ \A j \in diff : j <= i THEN -1
  ELSE 1

BCmp(a, b) ==
  IF Len(a) < Len(b) THEN -1
  ELSE IF Len(a) > Len(b) THEN 1
  ELSE BCmpAt(a, b, BDiff(a, b))

\* The carry into limb i of a + b.
BCarry(a, b, i) ==
  IF \E j \in 1..(i - 1) :
       /\ BLimb(a, j) + BLimb(b, j) >= Limb
       /\ \A k \in (j + 1)..(i - 1) : BLimb(a, k) + BLimb(b, k) = Limb - 1
  THEN 1 ELSE 0

BAdd(a, b) ==
  IF a = <<>> THEN b
  ELSE IF b = <<>> THEN a
  ELSE BNorm([i \in 1..(Max(Len(a), Len(b)) + 1) |->
                (BLimb(a, i) + BLimb(b, i) + BCarry(a, b, i)) % Limb])

\* The borrow from limb i of a - b.
BBorrow(a, b, i) ==
  IF \E j \in 1..(i - 1) :
       /\ a[j] < BLimb(b, j)
       /\ \A k \in (j + 1)..(i - 1) : a[k] = BLimb(b, k)
  THEN 1 ELSE 0

\* a - b for a >= b
BSub(a, b) ==
  IF a = <<>> \/ b = <<>> THEN a
  ELSE BNorm([i \in 1..Len(a) |-> (a[i] - BLimb(b, i) - BBorrow(a, b, i) + Limb) % Limb])

\* a * Limb^k
BShlLimbs(a, k) == IF a = <<>> THEN <<>> ELSE [i \in 1..k |-> 0] \o a

\* a * k for 0 <= k <= Limb: the low halves of the products of the limbs,
\* and their high halves one limb up.
BMulSmall(a, k) ==
  IF a = <<>> \/ k = 0 THEN <<>>
  ELSE BAdd([i \in 1..Len(a) |-> (a[i] * k) % Limb],
            <<0>> \o [i \in 1..Len(a) |-> (a[i] * k) \div Limb])

\* a * b: the limbs of b from limb i on.
RECURSIVE BMulFrom(_, _, _)
BMulFrom(a, b, i) ==
  IF i > Len(b) THEN <<>>
  ELSE BAdd(BMulFrom(a, b, i + 1), BShlLimbs(BMulSmall(a, b[i]), i - 1))

BMul(a, b) == IF a = <<>> \/ b = <<>> THEN <<>> ELSE BMulFrom(a, b, 1)

\* a * 2^k
BShl(a, k) ==
  IF a = <<>> \/ k = 0 THEN a
  ELSE BShlLimbs(BMulSmall(a, 2^(k % LimbBits)), k \div LimbBits)

\* a \div 2^k for k < LimbBits
BShrBits(a, k) ==
  BNorm([i \in 1..Len(a) |->
           (a[i] \div 2^k) + (BLimb(a, i + 1) % 2^k) * 2^(LimbBits - k)])

\* a \div 2^k
BShr(a, k) ==
  IF a = <<>> \/ k = 0 THEN a
  ELSE BShrBits(SubSeq(a, (k \div LimbBits) + 1, Len(a)), k % LimbBits)

\* The number of bits of a limb n.
BitsOf(n) == CHOOSE k \in 0..LimbBits : (k = 0 \/ 2^(k - 1) <= n) /\ n < 2^k

BBitLen(a) == IF a = <<>> THEN 0 ELSE LimbBits * (Len(a) - 1) + BitsOf(a[Len(a)])

\* The number of zero bits at the low end of a limb n > 0.
ZeroBitsOf(n) == CHOOSE k \in 0..LimbBits : n % 2^k = 0 /\ n % 2^(k + 1) # 0

\* The number of zero bits at the low end of a # 0: i is its lowest limb
\* that is not zero.
BZeroBitsAt(a, i) == LimbBits * (i - 1) + ZeroBitsOf(a[i])

BZeroBits(a) ==
  BZeroBitsAt(a, CHOOSE i \in 1..Len(a) : a[i] # 0 /\ \A j \in 1..(i - 1) : a[j] = 0)

\* Bit k of a, counted from 0.
BBit(a, k) == (BLimb(a, (k \div LimbBits) + 1) \div 2^(k % LimbBits)) % 2

\* The largest digit q with q * d <= r, from a digit q that is not below it.
RECURSIVE BDigitDown(_, _, _)
BDigitDown(r, d, q) ==
  IF q = 0 THEN 0
  ELSE IF BCmp(BMulSmall(d, q), r) <= 0 THEN q
  ELSE BDigitDown(r, d, q - 1)

RECURSIVE BDivModFrom(_, _, _, _, _, _, _)

\* One step of the long division: the digit found in the remainder r is put
\* under the quotient q.
BDivModDigit(a, d, s, top, i, q, r, digit) ==
  IF digit = 0 THEN BDivModFrom(a, d, s, top, i - 1, <<0>> \o q, r)
  ELSE BDivModFrom(a, d, s, top, i - 1, <<digit>> \o q, BSub(r, BMulSmall(d, digit)))

\* The digit in the remainder r < d * Limb is at most a few units below the
\* quotient of the top bits of r and d, all but the lowest s bits.
BDivModStep(a, d, s, top, i, q, r) ==
  IF r = <<>> THEN BDivModFrom(a, d, s, top, i - 1, <<0>> \o q, r)
  ELSE BDivModDigit(a, d, s, top, i, q, r,
         BDigitDown(r, d, Min(Limb - 1, (BToInt(BShr(r, s)) + 1) \div top)))

\* The long division of a by d, from limb i of a down: q is the quotient and
\* r the remainder of the limbs above limb i.
BDivModFrom(a, d, s, top, i, q, r) ==
  IF i = 0 THEN [q |-> BNorm(q), r |-> r]
  ELSE BDivModStep(a, d, s, top, i, q, BNorm(<<a[i]>> \o r))

\* top: the bits of d above its lowest s bits.
BDivModTop(a, d, s) ==
  BDivModFrom(a, d, s, BToInt(BShr(d, s)), Len(a) - Len(d) + 1, <<>>,
              SubSeq(a, Len(a) - Len(d) + 2, Len(a)))

\* a divided by d # 0: the quotient q and the remainder r.
BDivMod(a, d) ==
  IF BCmp(a, d) < 0 THEN [q |-> <<>>, r |-> a]
  ELSE BDivModTop(a, d, Max(0, BBitLen(d) - LimbBits))

\* A float is its sign, its mantissa (an odd natural number, or zero) and
\* the power of two it is multiplied with.  Infinities, NaN, subnormal
\* numbers and the sign of zero are left out: no value here is near them.
MantissaBits == 53

FZero == [neg |-> FALSE, man |-> <<>>, exp |-> 0]

\* The float neg * man * 2^exp of a mantissa of at most 53 bits.
FExact(neg, man, exp) ==
  IF man = <<>> THEN FZero
  ELSE [neg |-> neg, man |-> BShr(man, BZeroBits(man)), exp |-> exp + BZeroBits(man)]

\* The float nearest to neg * man * 2^exp, cutting k > 0 bits off man, a tie
\* going to the even mantissa; sticky tells that the exact value lies above
\* man * 2^exp.
FCut(neg, man, exp, sticky, k) ==
  IF BBit(man, k - 1) = 1 /\ (BZeroBits(man) < k - 1 \/ sticky \/ BBit(man, k) = 1)
  THEN FExact(neg, BAdd(BShr(man, k), <<1>>), exp + k)
  ELSE FExact(neg, BShr(man, k), exp + k)

\* The float nearest to neg * man * 2^exp.
FRoundMan(neg, man, exp, sticky) ==
  IF BBitLen(man) <= MantissaBits THEN FExact(neg, man, exp)
  ELSE FCut(neg, man, exp, sticky, BBitLen(man) - MantissaBits)

\* The float of an integer.
FInt(n) == FExact(n < 0, BFromInt(IF n < 0 THEN -n ELSE n), 0)

FNeg(a) == IF a.man = <<>> THEN a ELSE [a EXCEPT !.neg = ~a.neg]

\* bool(x) of a float is not FIsZero(x).
FIsZero(a) == a.man = <<>>

\* -1, 0, 1 as |a| is less than, equal to, greater than |b|, both written
\* with the exponent exp.
FCmpAbsAt(a, b, exp) == BCmp(BShl(a.man, a.exp - exp), BShl(b.man, b.exp - exp))

\* -1, 0, 1 as a < b, a = b, a > b.
FCmp(a, b) ==
  IF a = b THEN 0
  ELSE IF a.neg # b.neg THEN (IF a.neg THEN -1 ELSE 1)
  ELSE IF a.neg THEN -FCmpAbsAt(a, b, Min(a.exp, b.exp))
  ELSE FCmpAbsAt(a, b, Min(a.exp, b.exp))

FLt(a, b) == FCmp(a, b) < 0
FLe(a, b) == FCmp(a, b) <= 0

\* Python min(a, b) / max(a, b): the first argument wins a tie.
FMin(a, b) == IF FLt(b, a) THEN b ELSE a
FMax(a, b) == IF FLt(a, b) THEN b ELSE a

\* a + b for a, b # 0, the mantissas ma and mb written with the same
\* exponent exp.
FAddAt(a, b, ma, mb, exp) ==
  IF a.neg = b.neg THEN FRoundMan(a.neg, BAdd(ma, mb), exp, FALSE)
  ELSE IF BCmp(ma, mb) >= 0 THEN FRoundMan(a.neg, BSub(ma, mb), exp, FALSE)
  ELSE FRoundMan(b.neg, BSub(mb, ma), exp, FALSE)

FAddExp(a, b, exp) ==
  FAddAt(a, b, BShl(a.man, a.exp - exp), BShl(b.man, b.exp - exp), exp)

\* a + b
FAdd(a, b) ==
  IF a.man = <<>> THEN b
  ELSE IF b.man = <<>> THEN a
  ELSE FAddExp(a, b, Min(a.exp, b.exp))

\* a - b
FSub(a, b) == FAdd(a, FNeg(b))

\* a * b
FMul(a, b) ==
  IF a.man = <<>> \/ b.man = <<>> THEN FZero
  ELSE FRoundMan(a.neg # b.neg, BMul(a.man, b.man), a.exp + b.exp, FALSE)

\* The float nearest to a / b, from the quotient and the remainder qr of
\* a.man * 2^shift by b.man.
FDivRound(a, b, shift, qr) ==
  FRoundMan(a.neg # b.neg, qr.q, a.exp - b.exp - shift, qr.r # <<>>)

\* The quotient of the mantissas is taken with 55 bits or more.
FDivShift(a, b, shift) ==
  FDivRound(a, b, shift, BDivMod(BShl(a.man, shift), b.man))

\* a / b for b # 0; Python raises ZeroDivisionError for b = 0, which every
\* caller below tests before dividing.  A division by a power of two is
\* exact.
FDiv(a, b) ==
  IF a.man = <<>> THEN FZero
  ELSE IF b.man = <<1>> THEN [neg |-> a.neg # b.neg, man |-> a.man, exp |-> a.exp - b.exp]
  ELSE FDivShift(a, b, Max(0, MantissaBits + 2 + BBitLen(b.man) - BBitLen(a.man)))

\* The integer nearest to |a| for a.exp < 0, a tie going to the even one:
\* whole is the integer part of |a|, and bit -a.exp - 1 of the mantissa is
\* the half.
FRoundAbs(a, whole) ==
  IF BBit(a.man, -a.exp - 1) = 1 /\ (a.exp < -1 \/ BLimb(whole, 1) % 2 = 1)
  THEN BToInt(whole) + 1
  ELSE BToInt(whole)

FRoundNat(a) ==
  IF a.exp >= 0 THEN BToInt(BShl(a.man, a.exp)) ELSE FRoundAbs(a, BShr(a.man, -a.exp))

\* Python round(x) of a float: the nearest integer, a tie going to the even
\* one.
FRound(a) == IF a.neg THEN -FRoundNat(a) ELSE FRoundNat(a)

\* The float nearest to the rational n/d (d > 0): the float a decimal
\* literal of that value denotes.
Float(n, d) ==
  IF \E k \in 0..30 : d = 2^k
  THEN FExact(n < 0, BFromInt(IF n < 0 THEN -n ELSE n), -(CHOOSE k \in 0..30 : d = 2^k))
  ELSE FDiv(FInt(n), FInt(d))

\* The float that holds the rational a: the nearest one.
ToFloat(a) == Float(a[1], a[2])

\* a * 10^p, exactly.
FTimesPow10(a, p) == FExact(a.neg, BMul(a.man, BFromInt(Pow10(p))), a.exp)

\* Python round(x, p) of the float that holds the length a: the multiple of
\* 10^-p nearest to the float, the even one of two equally near.
RoundTo(a, p) == Q(FRound(FTimesPow10(ToFloat(a), p)), Pow10(p))

-----------------------------------------------------------------------------
(* Python str(float), str.rstrip, and the reading of a label as a number.   *)
(* A string is a sequence of one-character strings.                         *)

Digit(k) == ToString(k)

RECURSIVE NatStr(_)
NatStr(n) == IF n < 10 THEN <<Digit(n)>> ELSE NatStr(n \div 10) \o <<Digit(n % 10)>>

\* The p digits of f (0 <= f < 10^p), zero padded on the left.
RECURSIVE FracDigits(_, _)
FracDigits(f, p) ==
  IF p = 0 THEN <<>> ELSE FracDigits(f \div 10, p - 1) \o <<Digit(f % 10)>>

\* s.rstrip(c)
RECURSIVE RStrip(_, _)
RStrip(s, c) ==
  IF Len(s) > 0 /\ s[Len(s)] = c THEN RStrip(SubSeq(s, 1, Len(s) - 1), c) ELSE s

\* str(x) of a float x that has at most p decimals (1e-4 <= |x| < 1e16 or
\* x = 0): the shortest decimal expansion, with at least one digit after the
\* point.
FloatStr(a, p) ==
  LET m == a[1] * (Pow10(p) \div a[2])
      n == Abs(m)
      frac == RStrip(FracDigits(n % Pow10(p), p), "0")
  IN  (IF m < 0 THEN <<"-">> ELSE <<>>)
      \o NatStr(n \div Pow10(p)) \o <<".">>
      \o (IF frac = <<>> THEN <<"0">> ELSE frac)

Contains(s, c) == \E i \in 1..Len(s) : s[i] = c

DigitVal(c) == CHOOSE k \in 0..9 : Digit(k) = c

\* The number a string of digits with at most one point denotes.
RECURSIVE ParseNat(_)
ParseNat(s) ==
  IF s = <<>> THEN 0 ELSE 10 * ParseNat(SubSeq(s, 1, Len(s) - 1)) + DigitVal(s[Len(s)])

ParseNumber(s) ==
  LET neg == Len(s) > 0 /\ s[1] = "-"
      t == IF neg THEN Tail(s) ELSE s
      dot == IF Contains(t, ".") THEN CHOOSE i \in 1..Len(t) : t[i] = "." ELSE Len(t) + 1
      ip == SubSeq(t, 1, dot - 1)
      fp == SubSeq(t, dot + 1, Len(t))
      v == RAdd(I(ParseNat(ip)), Q(ParseNat(fp), Pow10(Len(fp))))
  IN  IF neg THEN RNeg(v) ELSE v

-----------------------------------------------------------------------------
(* Geometry of the host application, as far as the renderer reads it *)

\* FreeCAD.Vector(x, y, z)
Vector(x, y, z) == [type |-> "Vector", x |-> x, y |-> y, z |-> z]

VDot(a, b) == RAdd(RAdd(RMul(a.x, b.x), RMul(a.y, b.y)), RMul(a.z, b.z))
VAdd(a, b) == Vector(RAdd(a.x, b.x), RAdd(a.y, b.y), RAdd(a.z, b.z))
VSub(a, b) == Vector(RSub(a.x, b.x), RSub(a.y, b.y), RSub(a.z, b.z))
VScale(a, k) == Vector(RMul(a.x, k), RMul(a.y, k), RMul(a.z, k))

ZeroVector == Vector(I(0), I(0), I(0))
AxisX == Vector(I(1), I(0), I(0))
AxisY == Vector(I(0), I(1), I(0))
AxisZ == Vector(I(0), I(0), I(1))

\* DraftVecUtils.isNull(v)
isNull(v) == RIsZero(v.x) /\ RIsZero(v.y) /\ RIsZero(v.z)

\* WorkingPlane.Plane with its two in-plane axes u and v.
Plane(axis, u, v) == [type |-> "Plane", axis |-> axis, u |-> u, v |-> v]

\* The view plane orthogonal to an axis direction (the coordinate axes only).
getSVGPlaneFromAxis(axis) ==
  IF axis = AxisX THEN Plane(axis, VScale(AxisY, I(-1)), VScale(AxisZ, I(-1)))
  ELSE IF axis = VScale(AxisX, I(-1)) THEN Plane(axis, AxisY, VScale(AxisZ, I(-1)))
  ELSE IF axis = AxisY THEN Plane(axis, AxisX, VScale(AxisZ, I(-1)))
  ELSE IF axis = VScale(AxisY, I(-1)) THEN Plane(axis, VScale(AxisX, I(-1)), VScale(AxisZ, I(-1)))
  ELSE IF axis = AxisZ THEN Plane(axis, AxisX, AxisY)
  ELSE Plane(axis, AxisX, VScale(AxisY, I(-1)))

\* The orthogonal projection of a 3D point on the view plane: its
\* coordinates along the plane's u and v axes, as floats.
getProjectionToSVGPlane(vec, plane) ==
  [x |-> ToFloat(VDot(vec, plane.u)), y |-> ToFloat(VDot(vec, plane.v))]

\* A Part.Edge: its geometry type (DraftGeomUtils.geomType), its two
\* vertexes and its length.
Edge(t, a, b, len) == [type |-> t, v1 |-> a, v2 |-> b, Length |-> len]

\* The length of a vector that runs along one coordinate axis.
axisLength(d) ==
  RAdd(RAdd(Q(Abs(d.x[1]), d.x[2]), Q(Abs(d.y[1]), d.y[2])), Q(Abs(d.z[1]), d.z[2]))

\* A straight edge between two points that differ along one coordinate axis.
LineEdge(a, b) == Edge("Line", a, b, axisLength(VSub(b, a)))

Reversed(e) == Edge(e.type, e.v2, e.v1, e.Length)

\* The points of vs that are not in seen yet, each once, added to seen.
RECURSIVE EachOnce(_, _)
EachOnce(vs, seen) ==
  IF vs = <<>> THEN seen
  ELSE EachOnce(Tail(vs),
                IF \E i \in 1..Len(seen) : seen[i] = Head(vs) THEN seen
                ELSE Append(seen, Head(vs)))

\* The two end points of every edge, in the order of the edges.
RECURSIVE EndPoints(_)
EndPoints(edges) ==
  IF edges = <<>> THEN <<>>
  ELSE <<Head(edges).v1, Head(edges).v2>> \o EndPoints(Tail(edges))

\* wire.Vertexes: every vertex of the wire once, in the order of the edges.
Vertexes(edges) == EachOnce(EndPoints(edges), <<>>)

RemoveAt(s, i) == SubSeq(s, 1, i - 1) \o SubSeq(s, i + 1, Len(s))

\* Part.__sortEdges__: the edges chained end to start, beginning with the
\* first edge of the list; an edge that joins the chain by its far end is
\* turned round, and an edge that joins no end of the chain is left out.
RECURSIVE SortChain(_, _)
SortChain(chain, rest) ==
  LET last == chain[Len(chain)].v2
      first == chain[1].v1
      fwd == {i \in 1..Len(rest) : rest[i].v1 = last}
      fwdR == {i \in 1..Len(rest) : rest[i].v2 = last}
      bwd == {i \in 1..Len(rest) : rest[i].v2 = first}
      bwdR == {i \in 1..Len(rest) : rest[i].v1 = first}
      Lowest(S) == CHOOSE i \in S : \A j \in S : i <= j
  IN  IF fwd # {} THEN
        SortChain(Append(chain, rest[Lowest(fwd)]), RemoveAt(rest, Lowest(fwd)))
      ELSE IF fwdR # {} THEN
        SortChain(Append(chain, Reversed(rest[Lowest(fwdR)])), RemoveAt(rest, Lowest(fwdR)))
      ELSE IF bwd # {} THEN
        SortChain(<<rest[Lowest(bwd)]>> \o chain, RemoveAt(rest, Lowest(bwd)))
      ELSE IF bwdR # {} THEN
        SortChain(<<Reversed(rest[Lowest(bwdR)])>> \o chain, RemoveAt(rest, Lowest(bwdR)))
      ELSE chain

sortEdges(edges) ==
  IF edges = <<>> THEN <<>> ELSE SortChain(<<edges[1]>>, Tail(edges))

\* DraftGeomUtils.fillet of two consecutive edges with radius r: two straight
\* edges that meet at a corner are shortened by r each and joined by an arc;
\* edges that run on in the same direction, edges shorter than r and edges
\* that are not both straight are returned as they are.
filletArc(e1, e2, r, p1, p3) ==
  << Edge("Line", e1.v1, p1, RSub(e1.Length, r)),
     Edge("Circle", p1, p3, RMul(Q(11, 7), r)),
     Edge("Line", p3, e2.v2, RSub(e2.Length, r)) >>

\* d1, d2: the unit directions of the two edges.
filletCorner(e1, e2, r, d1, d2) ==
  IF d1 = d2 \/ d1 = VScale(d2, I(-1)) THEN <<e1, e2>>
  ELSE IF ~RLt(r, e1.Length) \/ ~RLt(r, e2.Length) THEN <<e1, e2>>
  ELSE filletArc(e1, e2, r, VSub(e1.v2, VScale(d1, r)), VAdd(e2.v1, VScale(d2, r)))

fillet(e1, e2, r) ==
  IF e1.type # "Line" \/ e2.type # "Line" THEN <<e1, e2>>
  ELSE filletCorner(e1, e2, r,
                    VScale(VSub(e1.v2, e1.v1), RDiv(I(1), e1.Length)),
                    VScale(VSub(e2.v2, e2.v1), RDiv(I(1), e2.Length)))

\* DraftGeomUtils.filletWire of an open wire: every corner is filleted in
\* turn, each time between the last edge so far and the next edge.
RECURSIVE filletFrom(_, _, _, _)
filletFrom(filEdges, edges, i, r) ==
  IF i > Len(edges) THEN filEdges
  ELSE filletFrom(SubSeq(filEdges, 1, Len(filEdges) - 1)
                    \o fillet(filEdges[Len(filEdges)], edges[i], r),
                  edges, i + 1, r)

filletWire(wire, r) ==
  LET edges == sortEdges(wire)
  IN  IF edges = <<>> THEN <<>> ELSE filletFrom(<<edges[1]>>, edges, 2, r)

-----------------------------------------------------------------------------
(* getVertexesMinMaxXY *)

\* Lines 133-137: the extremes start at the first projected point.
MinMaxOfPoint(point) ==
  [min_x |-> point.x, min_y |-> point.y, max_x |-> point.x, max_y |-> point.y]

\* Lines 139-142: the extremes after one more projected point.
MinMaxWith(point, acc) ==
  [min_x |-> FMin(point.x, acc.min_x), min_y |-> FMin(point.y, acc.min_y),
   max_x |-> FMax(point.x, acc.max_x), max_y |-> FMax(point.y, acc.max_y)]

\* Lines 138-142: the loop over the vertexes from vertex i on.  The
\* extremes after vertex i are computed before the loop goes on to the next
\* vertex with them.
RECURSIVE MinMaxFrom(_, _, _, _)
MinMaxFrom(vertex_list, view_plane, i, acc) ==
  IF i > Len(vertex_list) THEN acc
  ELSE CHOOSE result \in
         { MinMaxFrom(vertex_list, view_plane, i + 1, next) :
             next \in {MinMaxWith(getProjectionToSVGPlane(vertex_list[i], view_plane),
                                  acc)} } : TRUE

\* min_x, min_y, max_x, max_y of a non-empty vertex list projected on view_plane.
getVertexesMinMaxXY(vertex_list, view_plane) ==
  MinMaxFrom(vertex_list, view_plane, 2,
             MinMaxOfPoint(getProjectionToSVGPlane(vertex_list[1], view_plane)))

-----------------------------------------------------------------------------
(* getRebarShapeSVG *)

\* The mark a bar shows: rebar.Mark of an ArchRebar, rebar.MarkNumber of a
\* rebar2 RebarShape, "" of an object with neither attribute.
displayMark(rebar) ==
  IF rebar.kind = "Rebar" THEN rebar.Mark
  ELSE IF rebar.kind = "RebarShape" THEN rebar.MarkNumber
  ELSE ""

\* getRebarColor: the colour of the bar's shape, or the colour asked for.
getRebarColor(rebar, rebar_color_style) ==
  IF rebar_color_style = "shape color" THEN rebar.ShapeColor ELSE rebar_color_style

\* getRebarsSpanAxis: the axis the host derives from the bar's span.
getRebarsSpanAxis(rebar) == rebar.SpanAxis

\* The elements of SVGfunc and getRoundCornerSVG, by their attributes.
getPointSVG(p, radius, fill) ==
  [el |-> "circle", cx |-> p.x, cy |-> p.y, r |-> radius, fill |-> fill]

getLineSVG(p1, p2, stroke_width, color) ==
  [el |-> "line", x1 |-> p1.x, y1 |-> p1.y, x2 |-> p2.x, y2 |-> p2.y,
   stroke_width |-> stroke_width, stroke |-> color]

getRoundCornerSVG(edge, radius, view_plane, stroke_width, color) ==
  [el |-> "path",
   p1 |-> getProjectionToSVGPlane(edge.v1, view_plane),
   p2 |-> getProjectionToSVGPlane(edge.v2, view_plane),
   radius |-> radius, stroke_width |-> stroke_width, stroke |-> color]

getSVGTextElement(data, x, y, font_family, font_size, text_anchor) ==
  [el |-> "text", text |-> data, x |-> x, y |-> y, font_family |-> font_family,
   font_size |-> font_size, text_anchor |-> text_anchor, transform |-> <<>>]

EmptyGroup == [el |-> "g"]

\* Lines 205-216: the view plane of a view direction, or "invalid" for a
\* value that is neither a FreeCAD.Vector nor a WorkingPlane.Plane.
resolveViewPlane(rebar, view_direction) ==
  IF view_direction.type = "Vector" THEN
    getSVGPlaneFromAxis(IF isNull(view_direction)
                        THEN getRebarsSpanAxis(rebar) ELSE view_direction)
  ELSE IF view_direction.type = "Plane" THEN view_direction
  ELSE [type |-> "invalid"]

\* Lines 232-238: the base wire with round corners.
filletBasewire(rebar) ==
  IF ~FIsZero(FMul(ToFloat(rebar.Rounding), ToFloat(rebar.Diameter)))
  THEN filletWire(rebar.Wire, RMul(rebar.Rounding, rebar.Diameter))
  ELSE rebar.Wire

\* dimension_font_size * (4 if include_mark else 2)
labelAllowance(dimension_font_size, include_mark) ==
  FMul(dimension_font_size, FInt(IF include_mark THEN 4 ELSE 2))

\* Lines 251-257: the vertical scaling factor (rebar_shape_height # 0 when
\* max_height is non-zero).
vScalingFactor(scale, max_height, include_mark, rebar_stroke_width, dimension_font_size, rebar_shape_height) ==
  IF ~FIsZero(max_height) THEN
    FDiv(FSub(FSub(max_height, labelAllowance(dimension_font_size, include_mark)),
              FMul(FInt(2), rebar_stroke_width)),
         rebar_shape_height)
  ELSE scale

\* Lines 251, 258-261: the horizontal scaling factor (rebar_shape_width # 0
\* when max_width is non-zero).
hScalingFactor(scale, max_width, rebar_stroke_width, dimension_font_size, rebar_shape_width) ==
  IF ~FIsZero(max_width) THEN
    FDiv(FSub(FSub(max_width, FMul(FInt(2), dimension_font_size)),
              FMul(FInt(2), rebar_stroke_width)),
         rebar_shape_width)
  ELSE scale

\* finalScale with the larger factor taken.
finalScaleLarger(h_scaling_factor, v_scaling_factor) ==
  FMax(h_scaling_factor, v_scaling_factor)

\* Line 262
finalScale(h_scaling_factor, v_scaling_factor) ==
  FMin(h_scaling_factor, v_scaling_factor)

\* Lines 263-267
svgHeight(rebar_shape_height, scale, dimension_font_size, include_mark, rebar_stroke_width) ==
  FSub(FAdd(FMul(rebar_shape_height, scale),
            labelAllowance(dimension_font_size, include_mark)),
       FMul(FInt(2), rebar_stroke_width))

\* Lines 268-272
svgWidth(rebar_shape_width, scale, dimension_font_size, rebar_stroke_width) ==
  FSub(FAdd(FMul(rebar_shape_width, scale), FMul(FInt(2), dimension_font_size)),
       FMul(FInt(2), rebar_stroke_width))

\* Lines 276-281 (scale # 0)
translateX(rebar_shape_min_x, dimension_font_size, rebar_stroke_width, scale) ==
  FRound(FNeg(FSub(rebar_shape_min_x,
                   FDiv(FAdd(dimension_font_size, rebar_stroke_width), scale))))

\* Lines 282-288 (scale # 0)
translateY(rebar_shape_min_y, include_mark, dimension_font_size, rebar_stroke_width, scale) ==
  FRound(FNeg(FSub(FSub(rebar_shape_min_y,
                        FDiv(FMul(FInt(IF include_mark THEN 3 ELSE 1), dimension_font_size),
                             scale)),
                   FDiv(rebar_stroke_width, scale))))

\* scaleDown without the division.
scaleDownNot(value, scale) == value

\* Lines 300-301: the stroke width and the font size written on the
\* elements inside the scaled group.
scaleDown(value, scale) == FDiv(value, scale)

\* Lines 342-349: the text of a length label.
edgeLengthText(length, precision) ==
  LET edge_length == FloatStr(RoundTo(length, precision), precision)
  IN  IF Contains(edge_length, ".") THEN RStrip(RStrip(edge_length, "0"), ".")
      ELSE edge_length

\* samePoint with either coordinate equal.
samePointEither(p1, p2) == FRound(p1.x) = FRound(p2.x) \/ FRound(p1.y) = FRound(p2.y)

\* Line 329: both end points fall on the same rounded point.
samePoint(p1, p2) == FRound(p1.x) = FRound(p2.x) /\ FRound(p1.y) = FRound(p2.y)

\* Lines 337-341: the rotation of a length label, in degrees: -90, or the
\* arc tangent of the slope, which is kept as the slope.
dimensionRotation(p1, p2) ==
  IF FRound(p2.x) # FRound(p1.x)
  THEN [atan |-> FDiv(FSub(p2.y, p1.y), FSub(p2.x, p1.x))]
  ELSE [degrees |-> -90]

\* Lines 326-334: the element of a straight edge.
lineEdgeSVG(p1, p2, rebar_stroke_width, rebar_color) ==
  IF samePoint(p1, p2)
  THEN getPointSVG(p1, FMul(FInt(2), rebar_stroke_width), rebar_color)
  ELSE getLineSVG(p1, p2, rebar_stroke_width, rebar_color)

\* Lines 350-365: the length label, placed at the middle of the edge and
\* turned about it.
dimensionTextAt(p1, p2, mid_x, mid_y, data, rebar_stroke_width, dimension_font_family, dimension_font_size) ==
  [getSVGTextElement(data, mid_x, FSub(mid_y, FMul(rebar_stroke_width, FInt(2))),
                     dimension_font_family, dimension_font_size, "middle")
     EXCEPT !.transform =
       <<"rotate", dimensionRotation(p1, p2), FRound(mid_x), FRound(mid_y)>>]

\* Lines 336-365: the length label of a straight edge.
edgeDimensionSVG(p1, p2, length, precision, rebar_stroke_width, dimension_font_family, dimension_font_size) ==
  dimensionTextAt(p1, p2, FDiv(FAdd(p1.x, p2.x), FInt(2)), FDiv(FAdd(p1.y, p2.y), FInt(2)),
                  edgeLengthText(length, precision), rebar_stroke_width,
                  dimension_font_family, dimension_font_size)

\* Lines 368-379: the element of a curved edge.
circleEdgeSVG(edge, p1, p2, radius, view_plane, rebar_stroke_width, rebar_color) ==
  IF FRound(p1.x) = FRound(p2.x) \/ FRound(p1.y) = FRound(p2.y)
  THEN getLineSVG(p1, p2, rebar_stroke_width, rebar_color)
  ELSE getRoundCornerSVG(edge, radius, view_plane, rebar_stroke_width, rebar_color)

\* Line 344: the edge of the base wire the cursor stands on.
cursorEdge(straight_edges, current_straight_edge_index) ==
  straight_edges[current_straight_edge_index + 1]

\* Line 366: the cursor after a straight edge.
nextCursor(current_straight_edge_index) == current_straight_edge_index + 1

RECURSIVE walkEdges(_, _, _, _, _)

\* Lines 326-366: a straight edge with the projected end points p1 and p2,
\* and the walk over the edges after it.  Line 344 raises an IndexError when
\* the cursor has run past the edges of the base wire.
walkLine(c, edges, i, current_straight_edge_index, out, p1, p2) ==
  IF current_straight_edge_index >= Len(c.straight_edges)
  THEN [out EXCEPT !.error = "IndexError"]
  ELSE walkEdges(c, edges, i + 1, nextCursor(current_straight_edge_index),
         [out EXCEPT
            !.edges = Append(@, lineEdgeSVG(p1, p2, c.rebar_stroke_width, c.rebar_color)),
            !.dims = Append(@, edgeDimensionSVG(p1, p2,
                       cursorEdge(c.straight_edges, current_straight_edge_index).Length,
                       c.precision, c.rebar_stroke_width,
                       c.dimension_font_family, c.dimension_font_size))])

\* Lines 324-382: the walk over the edges of the filleted wire from edge i
\* on; out holds the children of the two groups so far, and the exception
\* that ended the walk, if any.
walkEdges(c, edges, i, current_straight_edge_index, out) ==
  IF i > Len(edges) \/ out.error # "" THEN out
  ELSE IF edges[i].type = "Line" THEN
    walkLine(c, edges, i, current_straight_edge_index, out,
             getProjectionToSVGPlane(edges[i].v1, c.view_plane),
             getProjectionToSVGPlane(edges[i].v2, c.view_plane))
  ELSE IF edges[i].type = "Circle" THEN
    walkEdges(c, edges, i + 1, current_straight_edge_index,
      [out EXCEPT
         !.edges = Append(@, circleEdgeSVG(edges[i],
                      getProjectionToSVGPlane(edges[i].v1, c.view_plane),
                      getProjectionToSVGPlane(edges[i].v2, c.view_plane),
                      c.fillet_radius, c.view_plane, c.rebar_stroke_width,
                      c.rebar_color))])
  ELSE
    walkEdges(c, edges, i + 1, current_straight_edge_index,
      [out EXCEPT !.edges = Append(@, EmptyGroup)])

\* A call that ended in a Python exception.
Raised(exception) == [tag |-> "exception", error |-> exception]

\* Lines 211-216: the empty group returned, after the error is printed, for
\* an invalid view direction.
InvalidViewDirection == [tag |-> "g", printed |-> "Invalid view_direction type"]

\* Lines 289-319 and the return: the svg of a shape whose edges are drawn.
\* a holds the arguments of the call; the stroke width and the font size of
\* the elements are the scaled-down ones.
shapeSVG(a, box, scale, svg_width, svg_height, dimension_font_size, walk) ==
  IF walk.error # "" THEN Raised(walk.error)
  ELSE [tag |-> "svg",
        width |-> FRound(svg_width),
        height |-> FRound(svg_height),
        viewBox |-> <<0, 0, FRound(svg_width), FRound(svg_height)>>,
        svg_width |-> svg_width,
        svg_height |-> svg_height,
        shape |->
          [id |-> a.rebar.Name,
           scale |-> scale,
           translate |-> <<translateX(box.min_x, a.font_size, a.stroke_width, scale),
                           translateY(box.min_y, a.include_mark, a.font_size,
                                      a.stroke_width, scale)>>,
           mark |-> IF a.include_mark
                    THEN <<getSVGTextElement(displayMark(a.rebar), box.min_x,
                              FSub(box.min_y, FMul(Float(3, 2), dimension_font_size)),
                              a.dimension_font_family,
                              FMul(Float(3, 2), dimension_font_size), "start")>>
                    ELSE <<>>,
           edges |-> walk.edges,
           dims |-> walk.dims]]

\* Lines 263-382: the shape drawn at the scale that was settled on.  The
\* divisions by the scale of lines 276-288 raise a ZeroDivisionError at scale 0.
shapeAtScale(a, view_plane, fillet_basewire, box, rebar_shape_height, rebar_shape_width, scale) ==
  IF FIsZero(scale) THEN Raised("ZeroDivisionError")
  ELSE shapeSVG(a, box, scale,
         svgWidth(rebar_shape_width, scale, a.font_size, a.stroke_width),
         svgHeight(rebar_shape_height, scale, a.font_size, a.include_mark,
                   a.stroke_width),
         scaleDown(a.font_size, scale),
         walkEdges([view_plane |-> view_plane,
                    straight_edges |-> sortEdges(a.rebar.Wire),
                    precision |-> a.precision,
                    fillet_radius |-> FMul(ToFloat(a.rebar.Rounding),
                                           ToFloat(a.rebar.Diameter)),
                    rebar_stroke_width |-> scaleDown(a.stroke_width, scale),
                    rebar_color |-> getRebarColor(a.rebar, a.rebar_color_style),
                    dimension_font_family |-> a.dimension_font_family,
                    dimension_font_size |-> scaleDown(a.font_size, scale)],
                   sortEdges(fillet_basewire), 1, 0,
                   [error |-> "", edges |-> <<>>, dims |-> <<>>]))

\* Lines 251-262: the scale of a shape of the given height and width.
shapeOfSize(a, view_plane, fillet_basewire, box, rebar_shape_height, rebar_shape_width) ==
  IF ~FIsZero(a.max_height) /\ FIsZero(rebar_shape_height)
    THEN Raised("ZeroDivisionError")
  ELSE IF ~FIsZero(a.max_width) /\ FIsZero(rebar_shape_width)
    THEN Raised("ZeroDivisionError")
  ELSE shapeAtScale(a, view_plane, fillet_basewire, box, rebar_shape_height,
         rebar_shape_width,
         finalScale(hScalingFactor(a.scale_arg, a.max_width, a.stroke_width,
                                   a.font_size, rebar_shape_width),
                    vScalingFactor(a.scale_arg, a.max_height, a.include_mark,
                                   a.stroke_width, a.font_size, rebar_shape_height)))

\* Lines 249-250: the height and the width of the projected shape.
shapeInBox(a, view_plane, fillet_basewire, box) ==
  shapeOfSize(a, view_plane, fillet_basewire, box,
              FSub(box.max_y, box.min_y), FSub(box.max_x, box.min_x))

\* Lines 211-216 and 240-245: the shape seen on the view plane.  Line 133
\* raises an IndexError for a wire without vertexes.
shapeInPlane(a, view_plane, fillet_basewire) ==
  IF view_plane.type = "invalid" THEN InvalidViewDirection
  ELSE IF fillet_basewire = <<>> THEN Raised("IndexError")
  ELSE shapeInBox(a, view_plane, fillet_basewire,
                  getVertexesMinMaxXY(Vertexes(fillet_basewire), view_plane))

\* getRebarShapeSVG, lines 146-384.  precision is the "Decimals" unit
\* preference the function reads.
getRebarShapeSVG(rebar, view_direction, include_mark, stroke_width, rebar_color_style, dimension_font_family, font_size, scale_arg, max_height, max_width, precision) ==
  shapeInPlane([rebar |-> rebar, include_mark |-> include_mark,
                stroke_width |-> stroke_width,
                rebar_color_style |-> rebar_color_style,
                dimension_font_family |-> dimension_font_family,
                font_size |-> font_size, scale_arg |-> scale_arg,
                max_height |-> max_height, max_width |-> max_width,
                precision |-> precision],
               resolveViewPlane(rebar, view_direction), filletBasewire(rebar))

-----------------------------------------------------------------------------
(* getBaseRebarsList *)

\* Draft.get_objects_of_type(objects, kind): the objects of that type, in
\* document order.
RECURSIVE get_objects_of_type(_, _)
get_objects_of_type(objects, kind) ==
  IF objects = <<>> THEN <<>>
  ELSE (IF Head(objects).kind = kind THEN <<Head(objects)>> ELSE <<>>)
       \o get_objects_of_type(Tail(objects), kind)

\* x in mark_list
InList(x, list) == \E i \in 1..Len(list) : list[i] = x

\* str(rebar.MarkNumber) of an integer mark number
markNumberStr(rebar) == ToString(rebar.MarkNumber)

\* archRebarsPerMark without the test for an empty mark.
RECURSIVE archRebarsKeepEmpty(_, _)
archRebarsKeepEmpty(arch_rebars, acc) ==
  IF arch_rebars = <<>> THEN acc
  ELSE LET rebar == Head(arch_rebars)
       IN  archRebarsKeepEmpty(Tail(arch_rebars),
             IF ~InList(rebar.Mark, acc.mark_list)
             THEN [rebars |-> Append(acc.rebars, rebar),
                   mark_list |-> Append(acc.mark_list, rebar.Mark)]
             ELSE acc)

\* Lines 81-84: one ArchRebar per mark.  acc holds rebars and mark_list.
RECURSIVE archRebarsPerMark(_, _)
archRebarsPerMark(arch_rebars, acc) ==
  IF arch_rebars = <<>> THEN acc
  ELSE LET rebar == Head(arch_rebars)
       IN  archRebarsPerMark(Tail(arch_rebars),
             IF rebar.Mark # "" /\ ~InList(rebar.Mark, acc.mark_list)
             THEN [rebars |-> Append(acc.rebars, rebar),
                   mark_list |-> Append(acc.mark_list, rebar.Mark)]
             ELSE acc)

\* Lines 94-97: one RebarShape per mark.
RECURSIVE baseRebarsPerMark(_, _)
baseRebarsPerMark(base_rebars, acc) ==
  IF base_rebars = <<>> THEN acc
  ELSE LET rebar == Head(base_rebars)
       IN  baseRebarsPerMark(Tail(base_rebars),
             IF markNumberStr(rebar) # "" /\ ~InList(markNumberStr(rebar), acc.mark_list)
             THEN [rebars |-> Append(acc.rebars, rebar),
                   mark_list |-> Append(acc.mark_list, markNumberStr(rebar))]
             ELSE acc)

\* sorted(base_rebars, key=lambda x: x.MarkNumber): a stable sort.
RECURSIVE insertByMarkNumber(_, _)
insertByMarkNumber(sorted, rebar) ==
  IF sorted = <<>> THEN <<rebar>>
  ELSE IF sorted[Len(sorted)].MarkNumber <= rebar.MarkNumber THEN Append(sorted, rebar)
  ELSE Append(insertByMarkNumber(SubSeq(sorted, 1, Len(sorted) - 1), rebar),
              sorted[Len(sorted)])

RECURSIVE sortedByMarkNumber(_)
sortedByMarkNumber(base_rebars) ==
  IF base_rebars = <<>> THEN <<>>
  ELSE insertByMarkNumber(
         sortedByMarkNumber(SubSeq(base_rebars, 1, Len(base_rebars) - 1)),
         base_rebars[Len(base_rebars)])

\* getBaseRebarsList, lines 56-101, on the document d.
getBaseRebarsList(d, one_rebar_per_mark) ==
  LET arch_rebars == get_objects_of_type(d.Objects, "Rebar")
      arch == IF one_rebar_per_mark
              THEN archRebarsPerMark(arch_rebars, [rebars |-> <<>>, mark_list |-> <<>>])
              ELSE [rebars |-> arch_rebars, mark_list |-> <<>>]
      base_rebars == sortedByMarkNumber(get_objects_of_type(d.Objects, "RebarShape"))
  IN  IF ~d.active THEN <<>>
      ELSE IF one_rebar_per_mark THEN baseRebarsPerMark(base_rebars, arch).rebars
      ELSE arch.rebars \o base_rebars

-----------------------------------------------------------------------------
(* getRebarShapeCutList *)

\* iter(FreeCAD.Vector): the three coordinates, as floats.
vectorItems(v) ==
  << [type |-> "float", value |-> ToFloat(v.x)],
     [type |-> "float", value |-> ToFloat(v.y)],
     [type |-> "float", value |-> ToFloat(v.z)] >>

\* viewDirectionsList with the default direction repeated for a single vector.
viewDirectionsListDefault(view_directions, n) ==
  IF view_directions.type = "Vector" THEN
    [type |-> "list", items |-> [i \in 1..n |-> ZeroVector]]
  ELSE IF view_directions.type = "list" /\ Len(view_directions.items) < n THEN
    [type |-> "list",
     items |-> view_directions.items
               \o vectorItems(VScale(ZeroVector, I(n - Len(view_directions.items))))]
  ELSE view_directions

\* Lines 448-455: view_directions as the loop reads it.  A single vector is
\* repeated for every bar; a list shorter than the bars is extended with the
\* items of (number of missing directions) * FreeCAD.Vector(0, 0, 0), a
\* vector; anything else is left as it is.
viewDirectionsList(view_directions, n) ==
  IF view_directions.type = "Vector" THEN
    [type |-> "list", items |-> [i \in 1..n |-> view_directions]]
  ELSE IF view_directions.type = "list" THEN
    IF Len(view_directions.items) < n
    THEN [type |-> "list",
          items |-> view_directions.items
                    \o vectorItems(VScale(ZeroVector,
                                          I(n - Len(view_directions.items))))]
    ELSE view_directions
  ELSE view_directions

\* Lines 457-459
rebarShapeMaxHeight(row_height, include_mark, dimension_font_size) ==
  IF include_mark THEN FSub(row_height, FMul(FInt(2), dimension_font_size))
  ELSE row_height

\* getSVGRectangle
getSVGRectangle(x, y, width, height, element_id) ==
  [el |-> "rect", x |-> x, y |-> y, width |-> width, height |-> height,
   id |-> element_id]

\* rowTranslate with the rows counted from 1.
rowTranslateFromOne(i, row_height) == <<0, FMul(FInt(i + 1), row_height)>>

\* Line 494: the vertical place of row i (i counts from 0).
rowTranslate(i, row_height) == <<0, FMul(FInt(i), row_height)>>

\* Lines 475-514: the row of bar i (i counts from 0) around its shape svg.
rowSVG(i, rebar, rebar_svg, include_mark, dimension_font_family, dimension_font_size, row_height, width, rebar_shape_max_height) ==
  [transform |-> rowTranslate(i, row_height),
   border |-> getSVGRectangle(0, 0, width, row_height, <<"row_", i>>),
   shape |->
     [transform |->
        << FDiv(FSub(width, FInt(rebar_svg.width)), FInt(2)),
           FAdd(FDiv(FSub(rebar_shape_max_height, FInt(rebar_svg.height)), FInt(2)),
                IF include_mark THEN FMul(FInt(2), dimension_font_size) ELSE FInt(0)) >>,
      child |-> rebar_svg.shape],
   mark |-> IF include_mark
            THEN <<getSVGTextElement(displayMark(rebar), 2,
                      FMul(FInt(2), dimension_font_size), dimension_font_family,
                      FMul(Float(3, 2), dimension_font_size), "start")>>
            ELSE <<>>]

\* Lines 462-514: the loop over the bars from bar i on (i counts from 1
\* here).  It ends in a TypeError when view_directions cannot be indexed, in
\* the exception of a shape render, or in an AttributeError when the shape
\* render returned the empty group, which has no width.
RECURSIVE cutListRows(_, _, _, _)

\* Lines 475-514: the row of bar i (i counts from 1 here) once its shape is
\* rendered, and the loop over the bars after it.
cutListRowsAfter(c, view_directions, i, rows, rebar_svg) ==
  IF rebar_svg.tag = "exception" THEN [error |-> rebar_svg.error, rows |-> rows]
  ELSE IF rebar_svg.tag = "g" THEN [error |-> "AttributeError", rows |-> rows]
  ELSE cutListRows(c, view_directions, i + 1,
         Append(rows, rowSVG(i - 1, c.base_rebars_list[i], rebar_svg, c.include_mark,
                  c.dimension_font_family, c.dimension_font_size,
                  c.row_height, c.width, c.rebar_shape_max_height)))

cutListRows(c, view_directions, i, rows) ==
  IF i > Len(c.base_rebars_list) THEN [error |-> "", rows |-> rows]
  ELSE IF view_directions.type # "list" THEN [error |-> "TypeError", rows |-> rows]
  ELSE cutListRowsAfter(c, view_directions, i, rows,
         getRebarShapeSVG(c.base_rebars_list[i], view_directions.items[i], FALSE,
           c.rebars_stroke_width, c.rebars_color_style,
           c.dimension_font_family, c.dimension_font_size, FInt(1),
           c.rebar_shape_max_height, c.width, c.precision))

\* Lines 516-522: the cut list of n bars whose rows are drawn.
cutListSVG(n, row_height, width, loop) ==
  IF loop.error # "" THEN Raised(loop.error)
  ELSE [tag |-> "svg", width |-> width, height |-> FMul(row_height, FInt(n)),
        viewBox |-> <<0, 0, width, FMul(row_height, FInt(n))>>,
        rows |-> loop.rows]

\* Lines 440-522: the cut list of the bars of base_rebars_list.
cutListOf(base_rebars_list, view_directions, include_mark, rebars_stroke_width, rebars_color_style, dimension_font_family, dimension_font_size, row_height, width, precision) ==
  IF Len(base_rebars_list) = 0 THEN
    [tag |-> "svg", width |-> width, height |-> row_height,
     viewBox |-> <<0, 0, width, row_height>>, rows |-> <<>>]
  ELSE cutListSVG(Len(base_rebars_list), row_height, width,
         cutListRows(
           [base_rebars_list |-> base_rebars_list,
            include_mark |-> include_mark,
            rebars_stroke_width |-> rebars_stroke_width,
            rebars_color_style |-> rebars_color_style,
            dimension_font_family |-> dimension_font_family,
            dimension_font_size |-> dimension_font_size,
            row_height |-> row_height,
            width |-> width,
            rebar_shape_max_height |->
              rebarShapeMaxHeight(row_height, include_mark, dimension_font_size),
            precision |-> precision],
           viewDirectionsList(view_directions, Len(base_rebars_list)), 1, <<>>))

\* getRebarShapeCutList, lines 387-522, on the document d.  base_rebars_list
\* is a record: [none |-> TRUE] for None, else [none |-> FALSE, bars |-> list].
getRebarShapeCutList(d, base_rebars_arg, view_directions, include_mark, rebars_stroke_width, rebars_color_style, dimension_font_family, dimension_font_size, row_height, width, precision) ==
  cutListOf(IF base_rebars_arg.none THEN getBaseRebarsList(d, TRUE)
            ELSE base_rebars_arg.bars,
            view_directions, include_mark, rebars_stroke_width, rebars_color_style,
            dimension_font_family, dimension_font_size, row_height, width, precision)

-----------------------------------------------------------------------------
(* The bars, documents and arguments the calls are made with *)

\* A point given in quarters of a millimetre.
P(x, y, z) == Vector(Q(x, 4), Q(y, 4), Q(z, 4))

Bar(name, kind, mark, mark_number, rounding, diameter, span_axis, wire) ==
  [Name |-> name, kind |-> kind, Mark |-> mark, MarkNumber |-> mark_number,
   Rounding |-> rounding, Diameter |-> diameter, SpanAxis |-> span_axis,
   ShapeColor |-> "#000000", Wire |-> wire]

\* A straight bar along x.
StraightWire == << LineEdge(P(0, 0, 0), P(40, 0, 0)) >>

\* Two legs in the xy plane, 10 and 5.5 long.
LWire == << LineEdge(P(0, 0, 0), P(40, 0, 0)), LineEdge(P(40, 0, 0), P(40, 22, 0)) >>

\* The same two legs, listed last leg first.
LWireUnsorted == << LWire[2], LWire[1] >>

\* Three legs in the xy plane, 5.25, 8.25 and 6 long.
UWire ==
  << LineEdge(P(0, 0, 0), P(0, 21, 0)), LineEdge(P(0, 21, 0), P(33, 21, 0)),
     LineEdge(P(33, 21, 0), P(33, -3, 0)) >>

\* Three legs, the middle one along z.
ZWire ==
  << LineEdge(P(0, 0, 0), P(40, 0, 0)), LineEdge(P(40, 0, 0), P(40, 0, 20)),
     LineEdge(P(40, 0, 20), P(40, 24, 20)) >>

\* Two legs, the second a quarter of a millimetre long.
StubWire == << LineEdge(P(0, 0, 0), P(40, 0, 0)), LineEdge(P(40, 0, 0), P(40, 1, 0)) >>

\* A base wire drawn with a bend of its own: leg 10, arc 3.125, leg 8.
ArcWire ==
  << LineEdge(P(0, 0, 0), P(40, 0, 0)),
     Edge("Circle", P(40, 0, 0), P(48, 8, 0), Q(25, 8)),
     LineEdge(P(48, 8, 0), P(48, 40, 0)) >>

\* A base wire with an edge that is neither a line nor an arc.
SplineWire ==
  << LineEdge(P(0, 0, 0), P(40, 0, 0)),
     Edge("BSplineCurve", P(40, 0, 0), P(52, 12, 0), Q(35, 8)),
     LineEdge(P(52, 12, 0), P(52, 40, 0)) >>

BarLib ==
  << Bar("Rebar", "Rebar", "1", 0, I(0), I(2), AxisY, StraightWire),
     Bar("Rebar001", "Rebar", "2", 0, Q(1, 2), I(2), AxisZ, LWire),
     Bar("Rebar002", "Rebar", "", 0, Q(1, 8), I(2), AxisZ, LWireUnsorted),
     Bar("RebarShape", "RebarShape", "", 1, Q(1, 2), I(2), VScale(AxisZ, I(-1)), UWire),
     Bar("RebarShape001", "RebarShape", "", 2, Q(1, 8), I(2), AxisZ, ZWire),
     Bar("Rebar003", "Rebar", "3", 0, I(0), I(2), AxisZ, StubWire),
     Bar("Rebar004", "Rebar", "4", 0, I(0), I(2), AxisZ, ArcWire),
     Bar("Wire", "Wire", "", 0, I(0), I(2), AxisZ, SplineWire) >>

Range(f) == {f[i] : i \in DOMAIN f}

\* A view plane handed in directly: the xy plane.
PlaneXY == Plane(AxisZ, AxisX, AxisY)

\* A value that is neither a vector nor a plane.
NotADirection == [type |-> "float", value |-> FInt(0)]

ViewDirections == {ZeroVector, AxisY, AxisZ, PlaneXY, NotADirection}

\* No stroke, and the default stroke width 0.35 of the functions.
StrokeWidths == {FInt(0), Float(7, 20)}
FontSizes == {FInt(1), FInt(2)}
Scales == {Float(1, 2), FInt(1), FInt(2)}
MaxHeights == {FInt(0), FInt(8), FInt(29)}
MaxWidths == {FInt(0), FInt(60)}

\* The objects a document may hold at position i: an ArchRebar with a mark,
\* a RebarShape with a mark number, or an object of another type.
ObjectsLike(name, lib) ==
  { Bar(name, "Rebar", m, 0, lib.Rounding, lib.Diameter, lib.SpanAxis, lib.Wire) :
      m \in {"", "A"} \cup {ToString(k) : k \in 0..MaxMark} }
  \cup
  { Bar(name, "RebarShape", "", k, lib.Rounding, lib.Diameter, lib.SpanAxis, lib.Wire) :
      k \in 0..MaxMark }
  \cup
  { Bar(name, "Part", "", 0, lib.Rounding, lib.Diameter, lib.SpanAxis, lib.Wire) }

ObjectsAt(i) == ObjectsLike(<<"Object", i>>, BarLib[((i - 1) % Len(BarLib)) + 1])

\* FreeCAD.ActiveDocument is None.
NoDocument == [active |-> FALSE, Objects |-> <<>>]

\* The object lists of length n.
RECURSIVE ObjectLists(_)
ObjectLists(n) ==
  IF n = 0 THEN {<<>>}
  ELSE {Append(objs, o) : objs \in ObjectLists(n - 1), o \in ObjectsAt(n)}

\* No document, or an active document of up to MaxObjects objects.
Documents ==
  {NoDocument} \cup
  {[active |-> TRUE, Objects |-> objs] :
     objs \in UNION {ObjectLists(n) : n \in 0..MaxObjects}}

NoCall == [op |-> "none"]
NoReturn == [tag |-> "none"]

-----------------------------------------------------------------------------
(* The calls *)

\* Each behaviour makes one call: the functions keep no state between calls,
\* so a later call would start from the same document and preference.
CallBaseRebarsList ==
  \E one_rebar_per_mark \in BOOLEAN :
    /\ call = NoCall
    /\ call' = [op |-> "getBaseRebarsList", one_rebar_per_mark |-> one_rebar_per_mark]
    /\ ret' = [tag |-> "list", rebars |-> getBaseRebarsList(doc, one_rebar_per_mark)]
    /\ UNCHANGED <<doc, decimals>>

CallRebarShapeSVG ==
  \E rebar \in Range(BarLib), view_direction \in ViewDirections,
     include_mark \in BOOLEAN, rebar_stroke_width \in StrokeWidths,
     dimension_font_size \in FontSizes, scale \in Scales,
     max_height \in MaxHeights, max_width \in MaxWidths :
    /\ call = NoCall
    /\ call' = [op |-> "getRebarShapeSVG", rebar |-> rebar,
                view_direction |-> view_direction, include_mark |-> include_mark,
                rebar_stroke_width |-> rebar_stroke_width,
                dimension_font_size |-> dimension_font_size, scale |-> scale,
                max_height |-> max_height, max_width |-> max_width]
    /\ ret' = getRebarShapeSVG(rebar, view_direction, include_mark,
                rebar_stroke_width, "shape color", "DejaVu Sans",
                dimension_font_size, scale, max_height, max_width, decimals)
    /\ UNCHANGED <<doc, decimals>>

\* The bars the cut lists are made of: two bent bars of the two kinds and a
\* straight one.
CutListBars == {BarLib[i] : i \in {1, 2, 4}}

\* Every sequence over S of length lo .. hi.
SeqsOf(S, lo, hi) == UNION {[1..n -> S] : n \in lo..hi}

BarLists ==
  {[none |-> TRUE]} \cup {[none |-> FALSE, bars |-> l] : l \in SeqsOf(CutListBars, 0, MaxBars)}

CutListDirections == {AxisZ, NotADirection}

ViewDirectionsArgs ==
  {ZeroVector, AxisZ, PlaneXY}
  \cup {[type |-> "list", items |-> l] : l \in SeqsOf(CutListDirections, 0, MaxBars)}

RowHeights == {FInt(20), FInt(40)}

\* A document for the cut list of the bars of the active document.
SampleDocument ==
  [active |-> TRUE,
   Objects |-> << Bar("Rebar", "Rebar", "1", 0, Q(1, 2), I(2), AxisZ, LWire),
                  Bar("RebarShape", "RebarShape", "", 2, Q(1, 2), I(2), AxisZ, UWire),
                  Bar("RebarShape001", "RebarShape", "", 1, I(0), I(2), AxisZ, LWire) >>]

CallRebarShapeCutList ==
  \E base_rebars_list \in BarLists, view_directions \in ViewDirectionsArgs,
     include_mark \in BOOLEAN, row_height \in RowHeights :
    /\ call = NoCall
    /\ call' = [op |-> "getRebarShapeCutList", base_rebars_list |-> base_rebars_list,
                view_directions |-> view_directions, include_mark |-> include_mark,
                rebars_stroke_width |-> Float(1, 4), dimension_font_size |-> FInt(2),
                row_height |-> row_height, width |-> FInt(60)]
    /\ ret' = getRebarShapeCutList(doc, base_rebars_list, view_directions,
                include_mark, Float(1, 4), "shape color", "DejaVu Sans", FInt(2),
                row_height, FInt(60), decimals)
    /\ UNCHANGED <<doc, decimals>>

InitList ==
  /\ doc \in Documents
  /\ decimals = 2
  /\ call = NoCall
  /\ ret = NoReturn

InitShape ==
  /\ doc = NoDocument
  /\ decimals \in 0..MaxPrecision
  /\ call = NoCall
  /\ ret = NoReturn

InitCutList ==
  /\ doc \in {NoDocument, SampleDocument}
  /\ decimals \in 0..MaxPrecision
  /\ call = NoCall
  /\ ret = NoReturn

NextList == CallBaseRebarsList

NextShape == CallRebarShapeSVG

NextCutList == CallRebarShapeCutList

SpecCutList == InitCutList /\ [][NextCutList]_vars

SpecList == InitList /\ [][NextList]_vars

SpecShape == InitShape /\ [][NextShape]_vars

-----------------------------------------------------------------------------
(* Properties of getRebarShapeSVG *)

ShapeCalled == call.op = "getRebarShapeSVG"

ShapeRendered == ShapeCalled /\ ret.tag = "svg"

\* The call of the state, made again with another scale argument.
RenderWithScale(scale) ==
  getRebarShapeSVG(call.rebar, call.view_direction, call.include_mark,
                   call.rebar_stroke_width, "shape color", "DejaVu Sans",
                   call.dimension_font_size, scale, call.max_height,
                   call.max_width, decimals)

\* The relative error the rounding of the float operations of lines
\* 252-272 can leave: 2^-40.
FitSlack == FExact(FALSE, <<1>>, -40)

\* The absolute value of a.
FAbs(a) == [a EXCEPT !.neg = FALSE]

\* a and b differ by no more than the rounding errors of operations on
\* numbers of the given size.
WithinRounding(a, b, size) == FLe(FAbs(FSub(a, b)), FMul(size, FitSlack))

\* value <= bound, but for the rounding errors of the operations.
FitsWithin(value, bound) == FLe(FSub(value, bound), FMul(bound, FitSlack))

\* The least whole number that is at least the positive float a.
Ceiling(a) == IF FLt(FInt(FRound(a)), a) THEN FRound(a) + 1 ELSE FRound(a)

\* C1: when max_height is non-zero the computed svg_height is at most
\* max_height, and when max_width is non-zero the computed svg_width is at
\* most max_width, up to rounding: the computed value is above the bound by
\* no more than the rounding errors of the float operations that compute it
\* (less than 2^-40 of the bound), and the value written after the final
\* rounding to an integer is at most the bound rounded up.
FitGuarantee ==
  ShapeRendered =>
    /\ ~FIsZero(call.max_height) =>
         /\ FitsWithin(ret.svg_height, call.max_height)
         /\ ret.height <= Ceiling(call.max_height)
    /\ ~FIsZero(call.max_width) =>
         /\ FitsWithin(ret.svg_width, call.max_width)
         /\ ret.width <= Ceiling(call.max_width)

\* A render under both constraints in which the derived scale was applied
\* and the computed svg_height came out above max_height by a rounding
\* error, the height written being max_height.
FitGuaranteeWitness ==
  /\ ShapeRendered
  /\ ~FIsZero(call.max_height) /\ ~FIsZero(call.max_width)
  /\ FLt(FInt(0), ret.shape.scale)
  /\ FLt(call.max_height, ret.svg_height)
  /\ ret.height = FRound(call.max_height)

\* The stroke width written on an element of the edges group (the radius of
\* a dot is twice the stroke width).
WrittenStroke(e) ==
  IF e.el \in {"line", "path"} THEN e.stroke_width
  ELSE IF e.el = "circle" THEN FDiv(e.r, FInt(2))
  ELSE FInt(0)

\* The margins that svg_width and svg_height add to the scaled shape.
MarginWidth ==
  FSub(FMul(FInt(2), call.dimension_font_size), FMul(FInt(2), call.rebar_stroke_width))

MarginHeight ==
  FSub(FMul(FInt(IF call.include_mark THEN 4 ELSE 2), call.dimension_font_size),
       FMul(FInt(2), call.rebar_stroke_width))

UnconstrainedAtScaleOne ==
  /\ ShapeRendered
  /\ call.scale = FInt(1)
  /\ FIsZero(call.max_height) /\ FIsZero(call.max_width)

\* C2 as stated: with no max constraints the render with scale=2 has a
\* viewBox exactly twice as wide and as high as the render with scale=1, and
\* the stroke-width and font-size values written on the elements are the
\* same in both renders.
ScalingInvarianceAsStated ==
  UnconstrainedAtScaleOne =>
    LET two == RenderWithScale(FInt(2))
    IN  /\ two.tag = "svg"
        /\ two.viewBox[3] = 2 * ret.viewBox[3]
        /\ two.viewBox[4] = 2 * ret.viewBox[4]
        /\ \A i \in 1..Len(ret.shape.edges) :
             WrittenStroke(two.shape.edges[i]) = WrittenStroke(ret.shape.edges[i])
        /\ \A i \in 1..Len(ret.shape.dims) :
             two.shape.dims[i].font_size = ret.shape.dims[i].font_size

\* The size of the numbers svg_width and svg_height of two renders are
\* computed from.
SizeOf(one, two) ==
  FAdd(FAdd(FAbs(two), FMul(FInt(2), FAbs(one))),
       FAdd(FMul(FInt(4), call.dimension_font_size),
            FMul(FInt(2), call.rebar_stroke_width)))

\* C2 amended: with no max constraints the render with scale=2 has a computed
\* svg_width and svg_height equal, up to the rounding errors of the float
\* operations, to twice those of the render with scale=1 less the margin
\* (only the extent of the shape doubles), and the stroke-width and
\* font-size values written on the elements are exactly half those of the
\* render with scale=1, so that they agree once multiplied by the scale of
\* the group.
ScalingInvariance ==
  UnconstrainedAtScaleOne =>
    LET two == RenderWithScale(FInt(2))
    IN  /\ two.tag = "svg"
        /\ WithinRounding(two.svg_width,
                          FSub(FMul(FInt(2), ret.svg_width), MarginWidth),
                          SizeOf(ret.svg_width, two.svg_width))
        /\ WithinRounding(two.svg_height,
                          FSub(FMul(FInt(2), ret.svg_height), MarginHeight),
                          SizeOf(ret.svg_height, two.svg_height))
        /\ Len(two.shape.edges) = Len(ret.shape.edges)
        /\ Len(two.shape.dims) = Len(ret.shape.dims)
        /\ \A i \in 1..Len(ret.shape.edges) :
             /\ FMul(FInt(2), WrittenStroke(two.shape.edges[i]))
                  = WrittenStroke(ret.shape.edges[i])
             /\ ret.shape.edges[i].el # "g"
                  => WrittenStroke(ret.shape.edges[i]) = call.rebar_stroke_width
        /\ \A i \in 1..Len(ret.shape.dims) :
             /\ FMul(FInt(2), two.shape.dims[i].font_size) = ret.shape.dims[i].font_size
             /\ ret.shape.dims[i].font_size = call.dimension_font_size
        /\ \A i \in 1..Len(ret.shape.mark) :
             FMul(FInt(2), two.shape.mark[i].font_size) = ret.shape.mark[i].font_size

\* A render at scale 1 without constraints that wrote a visible stroke,
\* length labels and a round corner, and whose svg_height is not exactly
\* what the render at scale 2 gives back.
ScalingInvarianceWitness ==
  /\ UnconstrainedAtScaleOne
  /\ ~FIsZero(call.rebar_stroke_width)
  /\ Len(ret.shape.dims) > 1
  /\ \E i \in 1..Len(ret.shape.edges) : ret.shape.edges[i].el = "path"
  /\ RenderWithScale(FInt(2)).svg_height
       # FSub(FMul(FInt(2), ret.svg_height), MarginHeight)

\* C3: whenever max_height or max_width is non-zero the scale argument is
\* ignored: the render is the same for every value of the scale argument.
ScaleArgumentIgnored ==
  (ShapeRendered /\ (~FIsZero(call.max_height) \/ ~FIsZero(call.max_width))) =>
    \A scale \in Scales :
      LET other == RenderWithScale(scale)
      IN  other.tag = "svg" /\ other.shape.scale = ret.shape.scale

\* C11: getRebarShapeSVG never divides by zero: for every bar and every
\* configuration with a view direction that is a vector or a plane, a bar
\* whose projected box has no height or no width and a non-zero max_height or
\* max_width included, the call does not end in a ZeroDivisionError.
NeverDividesByZero ==
  (ShapeCalled /\ call.view_direction.type \in {"Vector", "Plane"}) =>
    ret # Raised("ZeroDivisionError")

\* The edges of a wire that are straight, in the order of the wire.
RECURSIVE StraightOnly(_)
StraightOnly(edges) ==
  IF edges = <<>> THEN <<>>
  ELSE (IF Head(edges).type = "Line" THEN <<Head(edges)>> ELSE <<>>)
       \o StraightOnly(Tail(edges))

\* A string of digits with neither trailing zeros after a point nor a point
\* at its end.
CleanNumber(s) ==
  /\ Len(s) > 0
  /\ s[Len(s)] # "."
  /\ Contains(s, ".") => s[Len(s)] # "0"

\* C4: for a wire of straight segments and circular arcs, the k-th length
\* label is the length of the k-th straight edge of the unfilleted wire,
\* rounded to the precision and written without trailing zeros or a
\* dangling point.
LabelsAreTrueLengths ==
  (ShapeRendered /\ \A i \in 1..Len(call.rebar.Wire) :
                      call.rebar.Wire[i].type \in {"Line", "Circle"}) =>
    LET true_edges == StraightOnly(sortEdges(call.rebar.Wire))
    IN  /\ Len(ret.shape.dims) <= Len(true_edges)
        /\ \A k \in 1..Len(ret.shape.dims) :
             /\ k <= Len(true_edges)
                  => ParseNumber(ret.shape.dims[k].text)
                       = RoundTo(true_edges[k].Length, decimals)
             /\ CleanNumber(ret.shape.dims[k].text)


\* The element the renderer is to draw for an edge with projected end
\* points p1 and p2: a dot or a line for a straight edge, a line or an arc
\* for a curved edge, an empty group for any other edge.
ExpectedElement(edge, p1, p2) ==
  IF edge.type = "Line" THEN
    IF FRound(p1.x) = FRound(p2.x) /\ FRound(p1.y) = FRound(p2.y) THEN "circle" ELSE "line"
  ELSE IF edge.type = "Circle" THEN
    IF FRound(p1.x) = FRound(p2.x) \/ FRound(p1.y) = FRound(p2.y) THEN "line" ELSE "path"
  ELSE "g"

\* The view plane of the call of the state.
CallViewPlane == resolveViewPlane(call.rebar, call.view_direction)

\* C10: after the edge walk the edges group holds one child per edge of the
\* filleted wire, in the sorted order, and the dimension group one label per
\* straight edge; a straight edge whose end points project to the same
\* rounded point is a dot of radius 2 * stroke_width, and a curved edge whose
\* end points round to the same x or the same y is a line.
EdgeWalkShape ==
  ShapeRendered =>
    LET edges == sortEdges(filletBasewire(call.rebar))
        P1(i) == getProjectionToSVGPlane(edges[i].v1, CallViewPlane)
        P2(i) == getProjectionToSVGPlane(edges[i].v2, CallViewPlane)
        stroke == FDiv(call.rebar_stroke_width, ret.shape.scale)
    IN  /\ Len(ret.shape.edges) = Len(edges)
        /\ Len(ret.shape.dims) = Len(StraightOnly(edges))
        /\ \A i \in 1..Len(edges) :
             LET e == ret.shape.edges[i]
             IN  /\ e.el = ExpectedElement(edges[i], P1(i), P2(i))
                 /\ e.el = "circle" =>
                      /\ e.r = FMul(FInt(2), stroke)
                      /\ e.cx = P1(i).x /\ e.cy = P1(i).y
                 /\ e.el = "line" =>
                      /\ e.x1 = P1(i).x /\ e.y1 = P1(i).y
                      /\ e.x2 = P2(i).x /\ e.y2 = P2(i).y
                 /\ e.el = "path" => e.p1 = P1(i) /\ e.p2 = P2(i)

\* A walk that drew a dot for a straight edge, a line for a curved edge and
\* a line for a straight edge.
EdgeWalkShapeWitness ==
  /\ ShapeRendered
  /\ \E i \in 1..Len(ret.shape.edges) : ret.shape.edges[i].el = "circle"
  /\ LET edges == sortEdges(filletBasewire(call.rebar))
     IN  /\ \E i \in 1..Len(edges) :
               edges[i].type = "Circle" /\ ret.shape.edges[i].el = "line"
         /\ \E i \in 1..Len(edges) :
               edges[i].type = "Line" /\ ret.shape.edges[i].el = "line"
         /\ Len(ret.shape.dims) < Len(edges)

-----------------------------------------------------------------------------
(* Properties of getRebarShapeCutList *)

CutListCalled == call.op = "getRebarShapeCutList"

\* The bars of the call: the list handed in, or the bars of the document.
CallBars ==
  IF call.base_rebars_list.none THEN getBaseRebarsList(doc, TRUE)
  ELSE call.base_rebars_list.bars

\* The height the composer leaves to a shape.
CallShapeMaxHeight ==
  IF call.include_mark
  THEN FSub(call.row_height, FMul(FInt(2), call.dimension_font_size))
  ELSE call.row_height

\* The render of one bar as the composer asks for it.
RowShape(rebar, view_direction) ==
  getRebarShapeSVG(rebar, view_direction, FALSE, call.rebars_stroke_width,
                   "shape color", "DejaVu Sans", call.dimension_font_size, FInt(1),
                   CallShapeMaxHeight, call.width, decimals)

\* The call of the state, made again with other view directions.
CutListWithDirections(view_directions) ==
  getRebarShapeCutList(doc, call.base_rebars_list, view_directions,
                       call.include_mark, call.rebars_stroke_width, "shape color",
                       "DejaVu Sans", call.dimension_font_size, call.row_height,
                       call.width, decimals)

IsDirection(v) == v.type \in {"Vector", "Plane"}

\* C5: when one bar of a non-empty list is paired with a view direction that
\* is neither a vector nor a plane, the cut list render does not abort: it
\* has one row for every bar, and every other bar's shape is in its row.
CutListSurvivesInvalidDirection ==
  (/\ CutListCalled
   /\ Len(CallBars) >= 1
   /\ call.view_directions.type = "list"
   /\ Len(call.view_directions.items) >= Len(CallBars)
   /\ \E i \in 1..Len(CallBars) : ~IsDirection(call.view_directions.items[i])
   /\ \A j \in 1..Len(CallBars) :
        IsDirection(call.view_directions.items[j])
          => RowShape(CallBars[j], call.view_directions.items[j]).tag = "svg")
  =>
  /\ ret.tag = "svg"
  /\ Len(ret.rows) = Len(CallBars)
  /\ \A j \in 1..Len(CallBars) :
       IsDirection(call.view_directions.items[j])
         => ret.rows[j].shape.child
              = RowShape(CallBars[j], call.view_directions.items[j]).shape

\* C6: a list of k view directions, k smaller than the number N of bars, is
\* padded with N - k zero vectors: the output is that of the call with the
\* padded list.
ShortDirectionsPadded ==
  (/\ CutListCalled
   /\ call.view_directions.type = "list"
   /\ Len(call.view_directions.items) < Len(CallBars))
  =>
  ret = CutListWithDirections(
          [type |-> "list",
           items |-> call.view_directions.items
                     \o [i \in 1..(Len(CallBars) - Len(call.view_directions.items))
                           |-> ZeroVector]])

\* The list of n copies of one view direction.
Copies(view_direction, n) ==
  [type |-> "list", items |-> [i \in 1..n |-> view_direction]]

\* C7 as stated: a single view direction, a vector or a plane, is used for
\* every bar, and the output is that of the call with a list of N copies.
BroadcastAsStated ==
  (/\ CutListCalled
   /\ Len(CallBars) >= 1
   /\ IsDirection(call.view_directions))
  =>
  ret = CutListWithDirections(Copies(call.view_directions, Len(CallBars)))

\* C7 amended: a single direction vector is used for every bar, and the
\* output is that of the call with a list of N copies of it.
BroadcastVector ==
  (/\ CutListCalled
   /\ Len(CallBars) >= 1
   /\ call.view_directions.type = "Vector")
  =>
  /\ ret = CutListWithDirections(Copies(call.view_directions, Len(CallBars)))
  /\ ret.tag = "svg" =>
       \A i \in 1..Len(CallBars) :
         ret.rows[i].shape.child = RowShape(CallBars[i], call.view_directions).shape

\* A cut list of two bars rendered with one non-zero vector that is not the
\* span axis of the second bar.
BroadcastVectorWitness ==
  /\ CutListCalled
  /\ call.view_directions.type = "Vector"
  /\ ~isNull(call.view_directions)
  /\ Len(CallBars) = 2
  /\ CallBars[2].SpanAxis # call.view_directions
  /\ ret.tag = "svg"

\* C8: the document of a non-empty list of N bars has N rows, row i holds
\* the shape of the i-th bar, row i is moved down by i * row_height (i from
\* 0), and the document is row_height * N high and width wide.
CutListRows ==
  (CutListCalled /\ Len(CallBars) >= 1 /\ ret.tag = "svg") =>
    /\ Len(ret.rows) = Len(CallBars)
    /\ \A i \in 1..Len(CallBars) :
         /\ i <= Len(ret.rows)
         /\ ret.rows[i].shape.child.id = CallBars[i].Name
         /\ ret.rows[i].transform = <<0, FMul(FInt(i - 1), call.row_height)>>
         /\ ret.rows[i].border.id = <<"row_", i - 1>>
    /\ ret.height = FMul(call.row_height, FInt(Len(CallBars)))
    /\ ret.width = call.width
    /\ ret.viewBox = <<0, 0, call.width, FMul(call.row_height, FInt(Len(CallBars)))>>

\* A cut list of two different bars, handed in as a list.
CutListRowsWitness ==
  /\ CutListCalled
  /\ ~call.base_rebars_list.none
  /\ Len(CallBars) = 2
  /\ CallBars[1].Name # CallBars[2].Name
  /\ ret.tag = "svg"

-----------------------------------------------------------------------------
(* Properties of getBaseRebarsList *)

ListCalled == call.op = "getBaseRebarsList"

\* The mark of a bar as a string: the Mark of an ArchRebar, the MarkNumber of
\* a RebarShape written in decimal.
MarkString(rebar) ==
  IF rebar.kind = "Rebar" THEN rebar.Mark ELSE ToString(rebar.MarkNumber)

\* The places in the document of its ArchRebars and of its RebarShapes.
ArchPlaces == {i \in 1..Len(doc.Objects) : doc.Objects[i].kind = "Rebar"}
ShapePlaces == {i \in 1..Len(doc.Objects) : doc.Objects[i].kind = "RebarShape"}

\* The rank of a bar in the traversal: the ArchRebars in document order, then
\* the RebarShapes by mark number, equal mark numbers in document order.
Before(i, j) ==
  \/ i \in ArchPlaces /\ j \in ShapePlaces
  \/ i \in ArchPlaces /\ j \in ArchPlaces /\ i < j
  \/ /\ i \in ShapePlaces /\ j \in ShapePlaces
     /\ \/ doc.Objects[i].MarkNumber < doc.Objects[j].MarkNumber
        \/ doc.Objects[i].MarkNumber = doc.Objects[j].MarkNumber /\ i < j

\* The place in the document of the k-th bar returned.
PlaceOf(k) == CHOOSE i \in 1..Len(doc.Objects) : doc.Objects[i] = ret.rebars[k]

\* C9: with one_rebar_per_mark the list has no two bars with the same mark
\* string and no bar with an empty mark, and holds for each mark the first
\* bar with that mark in the traversal; without it the list holds every
\* ArchRebar and every RebarShape; without a document the list is empty.
OneRebarPerMark ==
  ListCalled =>
    LET r == ret.rebars
    IN  /\ \A k \in 1..Len(r) :
             \E i \in ArchPlaces \cup ShapePlaces : doc.Objects[i] = r[k]
        /\ \A k, l \in 1..Len(r) : k < l => Before(PlaceOf(k), PlaceOf(l))
        /\ call.one_rebar_per_mark =>
             /\ \A k, l \in 1..Len(r) : k # l => MarkString(r[k]) # MarkString(r[l])
             /\ \A k \in 1..Len(r) : MarkString(r[k]) # ""
             /\ \A k \in 1..Len(r) :
                  \A i \in ArchPlaces \cup ShapePlaces :
                    MarkString(doc.Objects[i]) = MarkString(r[k]) /\ i # PlaceOf(k)
                      => Before(PlaceOf(k), i)
             /\ \A i \in ArchPlaces \cup ShapePlaces :
                  MarkString(doc.Objects[i]) # ""
                    => \E k \in 1..Len(r) : MarkString(r[k]) = MarkString(doc.Objects[i])
        /\ ~call.one_rebar_per_mark =>
             /\ Len(r) = Cardinality(ArchPlaces \cup ShapePlaces)
             /\ \A i \in ArchPlaces \cup ShapePlaces :
                  \E k \in 1..Len(r) : r[k] = doc.Objects[i]

\* A document in which an ArchRebar and a later RebarShape share a mark, and
\* a RebarShape stands before one of a smaller mark number; one bar per mark
\* was asked for and two bars came back.
OneRebarPerMarkWitness ==
  /\ ListCalled /\ doc.active /\ call.one_rebar_per_mark
  /\ \E i \in ArchPlaces, j \in ShapePlaces :
       MarkString(doc.Objects[i]) = MarkString(doc.Objects[j])
  /\ \E i, j \in ShapePlaces :
       i < j /\ doc.Objects[j].MarkNumber < doc.Objects[i].MarkNumber
  /\ Len(ret.rebars) = 2

=============================================================================
